---------------------------- MODULE Spec2Model ----------------------------
(***************************************************************************)
(* FeatherPack (featherpack_v1.py): gear lists kept as CSV files, loaded   *)
(* with pandas, sorted by weight, edited per category and written back.    *)
(*                                                                         *)
(* A data frame is a record [columns, rows]; a row is a record with the    *)
(* fields name, desc, category, weight (the weight_icon column), qty (the  *)
(* '#' column), wearable, consumable, luxury (the three icon columns).     *)
(* Text cells are strings; numeric cells are integers; flags are booleans. *)
(***************************************************************************)
EXTENDS Integers, Sequences, FiniteSets, TLC

VARIABLES
    argsort_ties,     \* how the build's Series.sort_values leaves equal keys
    fs,               \* working directory: CSV file name -> file contents
    notes_fs,         \* notes sidecars, keyed by the config they belong to
    authenticated,    \* st.session_state.authenticated
    selected_config,  \* value of the 'Available configs' selectbox
    confirm_delete,   \* categories c with st.session_state[confirm_delete_c]
    df,               \* the frame loaded and sorted by the last run of main
    op,               \* the last user interaction that was handled
    X,                \* input gear list of the aggregator checks
    out,              \* results the aggregator produced from X
    stage             \* which aggregator step was applied last

vars == <<argsort_ties, fs, notes_fs, authenticated, selected_config,
          confirm_delete, df, op, X, out, stage>>

app_vars == <<fs, notes_fs, authenticated, selected_config, confirm_delete, df, op>>

agg_vars == <<X, out, stage>>

-----------------------------------------------------------------------------
(* Bounds of the model.                                                    *)

MaxRows == 3        \* longest gear list given to the aggregator

MaxFileRows == 2    \* longest gear list a CSV file holds at the start
MaxGrownRows == 3   \* longest gear list the app lets a CSV file grow to

\* Values of the weight and '#' columns.
Weights == {0, 1}

Quantities == {1, 2}

-----------------------------------------------------------------------------
(* Text, missing values and CSV cells.                                     *)

\* A function over 1..n as an explicit tuple (the same sequence).
AsSeq(s) == SubSeq(s, 1, Len(s))

\* Op applied to the value of v, v evaluated once.
Let(v, Op(_)) == CHOOSE r \in {Op(x) : x \in {v}} : TRUE

\* A missing value (float NaN / None) of a frame.  read_csv turns the text
\* "nan" itself into a missing value, so no text read from a file collides
\* with it; the texts typed into the app's inputs in this model avoid it.
NaN == "nan"

\* pandas' default NA tokens (keep_default_na=True) occurring in the model.
na_values == {"", "#N/A", "N/A", "NA", "NULL", "NaN", "n/a", "nan", "null"}

\* Python's string order on the category names the model uses.
Collation == <<"a", "b", "c">>

str_rank(s) == CHOOSE i \in 1..Len(Collation) : Collation[i] = s

\* Columns of a new gear list, in file order.
create_empty_df ==
    [columns |-> <<"name", "desc", "category", "weight", "#",
                   "wearable", "consumable", "luxury">>,
     rows |-> <<>>]

\* Column order of the frames the category editors return.
editor_columns ==
    <<"name", "desc", "#", "wearable", "consumable", "luxury", "weight", "category">>

parse_text(s) == IF s \in na_values THEN NaN ELSE s

format_text(v) == IF v = NaN THEN "" ELSE v

\* pd.read_csv: text cells that are NA tokens become missing values.
read_csv(file) ==
    Let(file, LAMBDA f :
        [columns |-> f.columns,
         rows |-> AsSeq([i \in 1..Len(f.rows) |->
                           [f.rows[i] EXCEPT !.name = parse_text(@),
                                             !.desc = parse_text(@),
                                             !.category = parse_text(@)]])])

\* DataFrame.to_csv(index=False): missing values are written as empty cells.
to_csv(frame) ==
    Let(frame, LAMBDA f :
        [columns |-> f.columns,
         rows |-> AsSeq([i \in 1..Len(f.rows) |->
                           [f.rows[i] EXCEPT !.name = format_text(@),
                                             !.desc = format_text(@),
                                             !.category = format_text(@)]])])

-----------------------------------------------------------------------------
(* Aggregator: item weights, category totals and the sort rule.            *)

RECURSIVE SumSeq(_)
SumSeq(s) == IF s = <<>> THEN 0 ELSE Head(s) + SumSeq(Tail(s))

Reverse(s) == Let(s, LAMBDA t : AsSeq([i \in 1..Len(t) |-> t[Len(t) + 1 - i]]))

\* Variant: the quantity left out of an item's weight.
item_weight_without_quantity(r) == r.weight

item_weight(r) == r.qty * r.weight

item_weights(rows) ==
    Let(rows, LAMBDA rs : AsSeq([i \in 1..Len(rs) |-> item_weight(rs[i])]))

\* numpy argsort, ascending, equal keys kept in position order: the indices
\* of keys in sorted order.
argsort(keys) ==
    Let(keys, LAMBDA ks :
        LET n == Len(ks)
            before(i) == {j \in 1..n : ks[j] < ks[i] \/ (ks[j] = ks[i] /\ j < i)}
        IN AsSeq([p \in 1..n |-> CHOOSE i \in 1..n : Cardinality(before(i)) = p - 1]))

\* Series.sort_values(ascending=False) on the values of a series: the
\* positions of the series in output order.  pandas >= 1.2 (nargsort)
\* reverses the values, sorts, and reverses the result, which keeps equal
\* keys in position order when the sort keeps them; older pandas reverses
\* the ascending order, which reverses equal keys.
sort_values_desc(keys) ==
    Let(keys, LAMBDA ks :
        IF argsort_ties = "kept"
        THEN Let(argsort(Reverse(ks)), LAMBDA idx :
                 Reverse(AsSeq([p \in 1..Len(ks) |-> Len(ks) + 1 - idx[p]])))
        ELSE Reverse(argsort(ks)))

\* df.groupby('category'): the group keys, missing categories dropped,
\* in sorted (string) order.
groupby_keys(rows) ==
    Let({rows[i].category : i \in 1..Len(rows)} \ {NaN}, LAMBDA present :
        SelectSeq(Collation, LAMBDA c : c \in present))

\* Sum of item_weight over the rows of one group.
group_sum(rows, c) ==
    SumSeq(item_weights(SelectSeq(rows, LAMBDA r : r.category = c)))

\* The group sums in the order of the group keys.
group_sums(rows, keys) == AsSeq([i \in 1..Len(keys) |-> group_sum(rows, keys[i])])

\* category_totals.index: the categories by total weight, descending.
category_totals_index(rows) ==
    Let(rows, LAMBDA rs :
    Let(groupby_keys(rs), LAMBDA keys :
    Let(sort_values_desc(group_sums(rs, keys)), LAMBDA order :
        AsSeq([p \in 1..Len(keys) |-> keys[order[p]]]))))

\* Code of a category in the ordered Categorical; a missing category sorts
\* last (na_position='last').
category_code(index, c) ==
    IF c = NaN THEN Len(index) + 1
    ELSE CHOOSE k \in 1..Len(index) : index[k] = c

category_codes(rows, index) ==
    AsSeq([i \in 1..Len(rows) |-> category_code(index, rows[i].category)])

\* Variant: descending order obtained by reversing an ascending sort inside
\* each category, which reverses rows of equal weight.
sort_rows_reversing_ties(rows) ==
    Let(rows, LAMBDA rs :
    Let(category_codes(rs, category_totals_index(rs)), LAMBDA code :
    Let(item_weights(rs), LAMBDA w :
        LET n == Len(rs)
            precedes(j, i) ==
                \/ code[j] < code[i]
                \/ code[j] = code[i] /\ w[j] > w[i]
                \/ code[j] = code[i] /\ w[j] = w[i] /\ j > i
            before(i) == {j \in 1..n : precedes(j, i)}
        IN AsSeq([p \in 1..n |-> rs[CHOOSE i \in 1..n : Cardinality(before(i)) = p - 1]]))))

\* df.sort_values(['category', 'item_weight'], ascending=[True, False]):
\* a lexsort, which keeps rows with equal keys in their original order.
sort_rows(rows) ==
    Let(rows, LAMBDA rs :
    Let(category_codes(rs, category_totals_index(rs)), LAMBDA code :
    Let(item_weights(rs), LAMBDA w :
        LET n == Len(rs)
            precedes(j, i) ==
                \/ code[j] < code[i]
                \/ code[j] = code[i] /\ w[j] > w[i]
                \/ code[j] = code[i] /\ w[j] = w[i] /\ j < i
            before(i) == {j \in 1..n : precedes(j, i)}
        IN AsSeq([p \in 1..n |-> rs[CHOOSE i \in 1..n : Cardinality(before(i)) = p - 1]]))))

sort_by_weight(frame) ==
    Let(frame, LAMBDA f : [columns |-> f.columns, rows |-> sort_rows(f.rows)])

\* df['category'].dropna().unique(): categories in order of first appearance.
RECURSIVE unique_from(_, _)
unique_from(rows, seen) ==
    IF rows = <<>> THEN seen
    ELSE Let(Head(rows).category, LAMBDA c :
             unique_from(Tail(rows),
                         IF c = NaN \/ \E k \in 1..Len(seen) : seen[k] = c
                         THEN seen ELSE Append(seen, c)))

unique_categories(rows) == unique_from(rows, <<>>)


-----------------------------------------------------------------------------
(* Summary metrics (main, lines 258-265, and display_summary).             *)

\* (df[flag] * df['total_weight']).sum() for one of the flag columns
flagged_weight(rows, flag) ==
    SumSeq(item_weights(SelectSeq(rows, LAMBDA r : r[flag] = TRUE)))

\* Variant: luxury weight taken out of the base weight as well.
base_weight_minus_luxury(total_weight, wearable_weight, consumable_weight, luxury_weight) ==
    total_weight - wearable_weight - consumable_weight - luxury_weight

\* total_weight - wearable_weight - consumable_weight
base_weight(total_weight, wearable_weight, consumable_weight, luxury_weight) ==
    total_weight - wearable_weight - consumable_weight

\* The five metrics display_summary shows for the rows of combined_df.
display_summary(rows) ==
    Let(rows, LAMBDA rs :
    Let(SumSeq(item_weights(rs)), LAMBDA total_weight :
    Let(flagged_weight(rs, "wearable"), LAMBDA wearable_weight :
    Let(flagged_weight(rs, "consumable"), LAMBDA consumable_weight :
    Let(flagged_weight(rs, "luxury"), LAMBDA luxury_weight :
        [total_weight |-> total_weight,
         wearable_weight |-> wearable_weight,
         consumable_weight |-> consumable_weight,
         luxury_weight |-> luxury_weight,
         base_weight |-> base_weight(total_weight, wearable_weight,
                                     consumable_weight, luxury_weight)])))))

\* combined_df.groupby('category')['total_weight'].sum(), sorted by total
\* descending: one record per category of the sorted frame.
category_weights(rows) ==
    Let(rows, LAMBDA rs :
    Let(category_totals_index(rs), LAMBDA index :
    Let(group_sums(rs, index), LAMBDA sums :
    Let(argsort(Reverse(sums)), LAMBDA idx :
    Let(Reverse(AsSeq([p \in 1..Len(sums) |-> Len(sums) + 1 - idx[p]])), LAMBDA order :
        AsSeq([p \in 1..Len(index) |->
                 [category |-> index[order[p]], total_weight |-> sums[order[p]]]]))))))

\* Total shown in the header of one category editor.
editor_total_weight(rows, category) ==
    Let(SelectSeq(rows, LAMBDA r : r.category = category), LAMBDA category_df :
        SumSeq(AsSeq([i \in 1..Len(category_df) |->
                        category_df[i].qty * category_df[i].weight])))

\* display_summary fails (min of an empty array, line 118) when the frame
\* has no category at all; the script stops there.
summary_fails(rows) == category_weights(rows) = <<>>

\* What one run of main shows for a loaded frame: the sorted rows, the
\* summary metrics, the pie chart's category weights and the totals in the
\* category headers.
render(frame) ==
    Let(sort_by_weight(frame).rows, LAMBDA sorted :
    Let(unique_categories(sorted), LAMBDA cats :
        [rows |-> sorted,
         failed |-> summary_fails(sorted),
         summary |-> display_summary(sorted),
         category_weights |-> category_weights(sorted),
         categories |-> cats,
         editor_totals |-> AsSeq([i \in 1..Len(cats) |->
                                    editor_total_weight(sorted, cats[i])])]))

-----------------------------------------------------------------------------
(* Aggregator checks: the pure functions applied to bounded gear lists.    *)

Flags == [wearable : BOOLEAN, consumable : BOOLEAN, luxury : BOOLEAN]

row(name, category, weight, qty, flags) ==
    [name |-> name, desc |-> NaN, category |-> category, weight |-> weight,
     qty |-> qty, wearable |-> flags.wearable, consumable |-> flags.consumable,
     luxury |-> flags.luxury]

no_flags == [wearable |-> FALSE, consumable |-> FALSE, luxury |-> FALSE]

SeqsUpTo(S, n) == UNION {[1..k -> S] : k \in 0..n}

\* Loaded rows that differ in category (one of them missing), weight and
\* quantity.
SortRows == {row("tent", c, w, q, no_flags) : c \in {"a", "b", NaN}, w \in Weights,
                                              q \in Quantities}

\* Loaded rows that differ in category, quantity and flags, and rows
\* without a category.
SummaryRows ==
    {row("tent", c, 1, q, f) : c \in {"a", "b"}, q \in Quantities, f \in Flags}
        \cup {row("tent", NaN, 1, q, no_flags) : q \in Quantities}

flip_luxury(rows, i) == [rows EXCEPT ![i].luxury = ~@]

AggInit(inputs) ==
    /\ argsort_ties \in {"kept", "reversed"}
    /\ X \in inputs
    /\ out = [none |-> TRUE]
    /\ stage = "loaded"
    /\ fs = <<>> /\ notes_fs = <<>> /\ authenticated = FALSE
    /\ selected_config = "" /\ confirm_delete = {} /\ df = <<>>
    /\ op = "none"

SortInit == AggInit(SeqsUpTo(SortRows, MaxRows))

\* df = sort_by_weight(df)
SortOnce ==
    /\ stage = "loaded"
    /\ out' = [sorted |-> sort_by_weight([columns |-> <<>>, rows |-> X]).rows]
    /\ stage' = "sorted"
    /\ UNCHANGED <<X, argsort_ties, app_vars>>

\* sort_by_weight applied to its own result.
SortTwice ==
    /\ stage = "sorted"
    /\ out' = [sorted |-> out.sorted,
               resorted |-> sort_by_weight([columns |-> <<>>, rows |-> out.sorted]).rows]
    /\ stage' = "resorted"
    /\ UNCHANGED <<X, argsort_ties, app_vars>>

SortNext == SortOnce \/ SortTwice

SpecSort == SortInit /\ [][SortNext]_vars

SummaryInit == AggInit(SeqsUpTo(SummaryRows, MaxFileRows))

\* One run of main over the loaded list.
Summarise ==
    /\ stage = "loaded"
    /\ out' = render([columns |-> <<>>, rows |-> X])
    /\ stage' = "summary"
    /\ UNCHANGED <<X, argsort_ties, app_vars>>

\* The same list with one luxury checkbox flipped, shown again.
FlipLuxury ==
    /\ stage \in {"summary", "flipped"}
    /\ \E i \in 1..Len(X) :
         /\ X' = flip_luxury(X, i)
         /\ out' = render([columns |-> <<>>, rows |-> X'])
    /\ stage' = "flipped"
    /\ UNCHANGED <<argsort_ties, app_vars>>

SummaryNext == Summarise \/ FlipLuxury

SpecSummary == SummaryInit /\ [][SummaryNext]_vars

-----------------------------------------------------------------------------
(* The app: one browser session over the working directory.  Every action  *)
(* is one user interaction: the widget callback, the run of main it        *)
(* triggers, and the rerun main asks for.                                  *)

NoConfig == "<no config>"

NoFrame == [columns |-> <<>>, rows |-> <<>>, loaded |-> FALSE]

Blank == " "

\* str.strip() on a text given as its sequence of characters.
RECURSIVE lstrip(_)
lstrip(t) == IF t # <<>> /\ Head(t) = Blank THEN lstrip(Tail(t)) ELSE t

strip(t) == Reverse(lstrip(Reverse(lstrip(t))))

\* The string spelled by a sequence of characters.
RECURSIVE join(_)
join(t) == IF t = <<>> THEN "" ELSE Head(t) \o join(Tail(t))

csv_suffix == <<".", "c", "s", "v">>

endswith(t, suffix) ==
    /\ Len(t) >= Len(suffix)
    /\ SubSeq(t, Len(t) - Len(suffix) + 1, Len(t)) = suffix

\* Variant: the extension appended whatever the name ends in.
config_file_name_always_suffixed(text) == join(strip(text) \o csv_suffix)

\* File name on_create_new_config writes for a non-blank input.
config_file_name(text) ==
    LET name == strip(text)
    IN join(IF endswith(name, csv_suffix) THEN name ELSE name \o csv_suffix)

\* The digest main compares against, and hashlib.sha256 on the passwords
\* tried in the model (the digests stand for the 64 hex digits).
correct_hash == "012567b583b5ecc9f2ce37bc79d97dd3159de12592dcc84434cb8c11be77e0ed"

Passwords == {"admin password", "guess"}

sha256(password) ==
    IF password = "admin password" THEN correct_hash
    ELSE "5e884898da28047151d0e56f8dc6292773603d0d6aabbdd62a11ef721d1542d8"

\* sorted(glob.glob('*.csv')): the configs on offer.
csv_files == DOMAIN fs

\* pd.read_csv followed by sort_by_weight (main, lines 256-257).
load(files, config) ==
    IF config = NoConfig THEN NoFrame
    ELSE LET frame == sort_by_weight(read_csv(files[config]))
         IN [columns |-> frame.columns, rows |-> frame.rows, loaded |-> TRUE]

\* The widgets below the summary exist only when a config is selected and
\* display_summary did not fail.
editing == df.loaded /\ ~summary_fails(df.rows)

categories == unique_categories(df.rows)

\* The row on_add_category appends.
placeholder_row(new_cat) ==
    [name |-> "", desc |-> "", category |-> new_cat, weight |-> 0, qty |-> 1,
     wearable |-> FALSE, consumable |-> FALSE, luxury |-> FALSE]

\* The row the data editor adds: column defaults, no text.
editor_row(category) ==
    [name |-> NaN, desc |-> NaN, category |-> category, weight |-> 0, qty |-> 1,
     wearable |-> FALSE, consumable |-> FALSE, luxury |-> FALSE]

\* Variant: the rows of the category kept and all others dropped.
without_category_inverted(rows, category) == SelectSeq(rows, LAMBDA r : r.category = category)

\* df[df['category'] != category]
without_category(rows, category) == SelectSeq(rows, LAMBDA r : r.category # category)

\* What the user did in the category editors before pressing Save Changes.
Edits ==
    {[kind |-> "none"]}
    \cup {[kind |-> "add_row", category |-> c] : c \in {"a", "b"}}
    \cup {[kind |-> "delete_row", category |-> c, k |-> 1] : c \in {"a", "b"}}
    \cup {[kind |-> "set_weight", category |-> c, k |-> 1, weight |-> w] :
             c \in {"a", "b"}, w \in Weights}
    \cup {[kind |-> "set_name", category |-> c, k |-> 1, name |-> n] :
             c \in {"a"}, n \in {"NA"}}

\* display_category_editor: the frame one category editor returns, the
\* category column dropped, the edit applied, the category put back.
edited_df(rows, category, edit) ==
    Let(SelectSeq(rows, LAMBDA r : r.category = category), LAMBDA category_df :
    Let(IF edit.kind = "none" \/ edit.category # category THEN category_df
        ELSE IF edit.kind = "add_row" THEN Append(category_df, editor_row(category))
        ELSE IF edit.k > Len(category_df) THEN category_df
        ELSE IF edit.kind = "delete_row"
             THEN SubSeq(category_df, 1, edit.k - 1)
                      \o SubSeq(category_df, edit.k + 1, Len(category_df))
        ELSE IF edit.kind = "set_weight"
             THEN [category_df EXCEPT ![edit.k].weight = edit.weight]
        ELSE [category_df EXCEPT ![edit.k].name = edit.name],
        LAMBDA edited :
            AsSeq([i \in 1..Len(edited) |-> [edited[i] EXCEPT !.category = category]])))

\* pd.concat(edited_dfs): the editors' frames, in category order.
RECURSIVE concat_edited(_, _, _)
concat_edited(rows, cats, edit) ==
    IF cats = <<>> THEN <<>>
    ELSE edited_df(rows, Head(cats), edit) \o concat_edited(rows, Tail(cats), edit)

\* combined_df of main's last lines: the editors' frames put together.
combined_df(rows, edit) ==
    Let(rows, LAMBDA rs :
    Let(unique_categories(rs), LAMBDA cats :
        [columns |-> editor_columns, rows |-> concat_edited(rs, cats, edit)]))

\* The frame Save Changes writes (main, lines 301-305).
saved_frame(rows, edit) == sort_by_weight(combined_df(rows, edit))

\* Rows a CSV file of the working directory may hold at the start: in
\* either category, a "tent" of weight 1 or an item named "NA" of weight 0.
FileRows == {[name |-> n, desc |-> "", category |-> c,
              weight |-> IF n = "tent" THEN 1 ELSE 0, qty |-> 1,
              wearable |-> FALSE, consumable |-> FALSE, luxury |-> FALSE] :
                 n \in {"tent", "NA"}, c \in {"a", "b"}}

\* Texts typed into 'New config' and 'New category'.
ConfigInputs == {<<>>, <<Blank, Blank>>, <<"t">>, <<Blank, "g", Blank>>,
                 <<"t", ".", "c", "s", "v">>}

CategoryInputs == {<<>>, <<Blank>>, <<Blank, "a">>, <<"b">>, <<"N", "A">>}

NotesInputs == {"pack light"}

Init ==
    /\ argsort_ties \in {"kept", "reversed"}
    /\ \E rows \in SeqsUpTo(FileRows, MaxFileRows) :
         fs = ("g.csv" :> [columns |-> create_empty_df.columns, rows |-> rows])
    /\ notes_fs = <<>>
    /\ authenticated = FALSE
    /\ selected_config = "g.csv"
    /\ confirm_delete = {}
    /\ df = load(fs, selected_config)
    /\ op = "none"
    /\ X = <<>> /\ out = [none |-> TRUE] /\ stage = "app"

\* Sidebar password box (main, lines 239-247).
Login(password) ==
    /\ ~authenticated
    /\ authenticated' = (sha256(password) = correct_hash)
    /\ op' = "login"
    /\ UNCHANGED <<fs, notes_fs, selected_config, confirm_delete, df, argsort_ties, agg_vars>>

\* 'Create' button: on_create_new_config, then main with the new config
\* selected.
on_create_new_config(text) ==
    /\ op' = "create"
    /\ IF strip(text) # <<>>
       THEN \E file \in {config_file_name(text)} :
              /\ fs' = (file :> to_csv(create_empty_df)) @@ fs
              /\ selected_config' = file
              /\ df' = load(fs', file)
       ELSE UNCHANGED <<fs, selected_config, df>>
    /\ UNCHANGED <<notes_fs, authenticated, confirm_delete, argsort_ties, agg_vars>>

\* The selectbox: the user picks one of the configs on offer.
Select(config) ==
    /\ config \in csv_files
    /\ config # selected_config
    /\ selected_config' = config
    /\ df' = load(fs, config)
    /\ op' = "select"
    /\ UNCHANGED <<fs, notes_fs, authenticated, confirm_delete, argsort_ties, agg_vars>>

\* 'Add Category' button: on_add_category over the frame of the last run,
\* then main.
on_add_category(text) ==
    /\ editing
    /\ Len(df.rows) < MaxGrownRows
    /\ op' = "add_category"
    /\ \E new_cat \in {join(strip(text))} :
         IF new_cat # ""
         THEN /\ fs' = [fs EXCEPT ![selected_config] =
                          to_csv([columns |-> df.columns,
                                  rows |-> Append(df.rows, placeholder_row(new_cat))])]
              /\ df' = load(fs', selected_config)
         ELSE UNCHANGED <<fs, df>>
    /\ UNCHANGED <<notes_fs, authenticated, selected_config, confirm_delete, argsort_ties,
                   agg_vars>>

\* Variant: the category deleted by the bin button itself.
on_delete_click_at_once(category) ==
    /\ editing
    /\ \E k \in 1..Len(categories) : categories[k] = category
    /\ fs' = [fs EXCEPT ![selected_config] =
                to_csv([columns |-> df.columns,
                        rows |-> without_category(df.rows, category)])]
    /\ df' = load(fs', selected_config)
    /\ op' = "delete_click"
    /\ UNCHANGED <<notes_fs, authenticated, selected_config, confirm_delete, argsort_ties,
                   agg_vars>>

\* The bin button of a category editor (lines 188-189).
on_delete_click(category) ==
    /\ editing
    /\ \E k \in 1..Len(categories) : categories[k] = category
    /\ confirm_delete' = confirm_delete \cup {category}
    /\ op' = "delete_click"
    /\ UNCHANGED <<fs, notes_fs, authenticated, selected_config, df, argsort_ties, agg_vars>>

\* 'Yes' in the confirmation dialog (lines 196-200), and the rerun.
on_confirm_yes(category) ==
    /\ editing
    /\ \E k \in 1..Len(categories) : categories[k] = category
    /\ category \in confirm_delete
    /\ \E loaded \in {load(fs, selected_config)} :
         fs' = [fs EXCEPT ![selected_config] =
                  to_csv([columns |-> loaded.columns,
                          rows |-> without_category(loaded.rows, category)])]
    /\ confirm_delete' = confirm_delete \ {category}
    /\ df' = load(fs', selected_config)
    /\ op' = "confirm_yes"
    /\ UNCHANGED <<notes_fs, authenticated, selected_config, argsort_ties, agg_vars>>

\* 'No' in the confirmation dialog (lines 202-204).
on_confirm_no(category) ==
    /\ editing
    /\ \E k \in 1..Len(categories) : categories[k] = category
    /\ category \in confirm_delete
    /\ confirm_delete' = confirm_delete \ {category}
    /\ op' = "confirm_no"
    /\ UNCHANGED <<fs, notes_fs, authenticated, selected_config, df, argsort_ties, agg_vars>>

\* 'Save Changes' with the editors as the user left them (lines 299-307).
SaveChanges(edit) ==
    /\ editing
    /\ op' = "save_changes"
    /\ \E loaded \in {load(fs, selected_config)} :
       \E written \in {saved_frame(loaded.rows, edit)} :
         /\ Len(written.rows) <= MaxGrownRows
         /\ IF authenticated
            THEN /\ fs' = [fs EXCEPT ![selected_config] = to_csv(written)]
                 /\ df' = load(fs', selected_config)
            ELSE UNCHANGED <<fs, df>>
    /\ UNCHANGED <<notes_fs, authenticated, selected_config, confirm_delete, argsort_ties,
                   agg_vars>>

\* The notes text area (lines 282-297).
EditNotes(notes) ==
    /\ editing
    /\ op' = "edit_notes"
    /\ \E existing_notes \in {IF selected_config \in DOMAIN notes_fs
                              THEN notes_fs[selected_config] ELSE ""} :
         IF notes # existing_notes /\ authenticated
         THEN notes_fs' = (selected_config :> notes) @@ notes_fs
         ELSE UNCHANGED notes_fs
    /\ UNCHANGED <<fs, authenticated, selected_config, confirm_delete, df, argsort_ties,
                   agg_vars>>

Next ==
    \/ \E password \in Passwords : Login(password)
    \/ \E text \in ConfigInputs : on_create_new_config(text)
    \/ \E config \in csv_files : Select(config)
    \/ \E text \in CategoryInputs : on_add_category(text)
    \/ \E category \in {"a", "b"} : on_delete_click(category)
    \/ \E category \in {"a", "b"} : on_confirm_yes(category)
    \/ \E category \in {"a", "b"} : on_confirm_no(category)
    \/ \E edit \in Edits : SaveChanges(edit)
    \/ \E notes \in NotesInputs : EditNotes(notes)

Spec == Init /\ [][Next]_vars

-----------------------------------------------------------------------------
(* Properties of the aggregator.                                           *)

RECURSIVE SetSum(_, _)
SetSum(S, f) ==
    IF S = {} THEN 0
    ELSE LET i == CHOOSE i \in S : TRUE IN f[i] + SetSum(S \ {i}, f)

\* quantity x weight of every row, written out from the data model.
Weigh(rows) == [i \in 1..Len(rows) |-> rows[i].qty * rows[i].weight]

RowsOf(rows, c) == {i \in 1..Len(rows) : rows[i].category = c}

CategoryTotal(rows, c) == SetSum(RowsOf(rows, c), Weigh(rows))

FirstOf(rows, c) == CHOOSE i \in RowsOf(rows, c) : \A j \in RowsOf(rows, c) : i <= j

Bijections(n) == {f \in [1..n -> 1..n] : \A i, j \in 1..n : f[i] = f[j] => i = j}

\* ys holds the rows of xs, the categories in the order CatBefore gives
\* and inside a category the heavier row first, rows of equal weight in
\* their order in xs.
OrderedBy(xs, ys, CatBefore(_, _)) ==
    /\ Len(ys) = Len(xs)
    /\ \E f \in Bijections(Len(xs)) :
         /\ \A p \in 1..Len(xs) : ys[p] = xs[f[p]]
         /\ \A p, q \in 1..Len(xs) :
              p < q =>
                LET i == f[p]
                    j == f[q]
                    w == Weigh(xs)
                IN IF xs[i].category = xs[j].category
                   THEN w[i] > w[j] \/ (w[i] = w[j] /\ i < j)
                   ELSE CatBefore(xs[i].category, xs[j].category)

\* Heavier category first, equal totals in order of first encounter.
ByEncounter(xs, c, d) ==
    \/ CategoryTotal(xs, c) > CategoryTotal(xs, d)
    \/ /\ CategoryTotal(xs, c) = CategoryTotal(xs, d)
       /\ FirstOf(xs, c) < FirstOf(xs, d)

\* No lighter category before a heavier one, rows without a category last.
ByTotal(xs, c, d) ==
    /\ c # NaN
    /\ (d = NaN \/ CategoryTotal(xs, c) >= CategoryTotal(xs, d))

\* The rows of every category stand together.
Contiguous(ys) ==
    \A p, q, r \in 1..Len(ys) :
        (p < q /\ q < r /\ ys[p].category = ys[r].category)
            => ys[q].category = ys[p].category

HasCategories(xs) == \A i \in 1..Len(xs) : xs[i].category # NaN

\* C3 as stated: sort_by_weight orders the categories by total weight
\* descending, categories of equal total in the order they are first
\* encountered in the input, and the rows of a category by quantity x
\* weight descending, rows of equal weight in their original order.
C3_EncounterOrder ==
    (stage = "sorted" /\ HasCategories(X)) =>
        OrderedBy(X, out.sorted, LAMBDA c, d : ByEncounter(X, c, d))

\* C3 amended: sort_by_weight orders the categories by total weight
\* descending, keeps the rows of a category together, and orders the rows
\* of a category by quantity x weight descending, rows of equal weight in
\* their original order; the order of categories of equal total is left to
\* the sort of the name-ordered totals and is not the encounter order.
C3_TotalOrder ==
    (stage = "sorted" /\ HasCategories(X)) =>
        /\ OrderedBy(X, out.sorted, LAMBDA c, d : ByTotal(X, c, d))
        /\ Contiguous(out.sorted)

\* C3 witness: a sorted list of three rows in which category b is met
\* before category a, both have the same total, and a holds two rows of
\* equal weight; sorting moved rows.
C3_Witness ==
    /\ stage = "sorted"
    /\ Len(X) = 3
    /\ X[1].category = "b" /\ X[2].category = "a" /\ X[3].category = "a"
    /\ CategoryTotal(X, "a") = CategoryTotal(X, "b")
    /\ Weigh(X)[2] = Weigh(X)[3] /\ X[2] # X[3]
    /\ out.sorted # X

\* C9: sort_by_weight(sort_by_weight(X)) has the same row order as
\* sort_by_weight(X).
C9_Idempotent == stage = "resorted" => out.resorted = out.sorted

\* C9 witness: a list that sorting reorders, with two different rows of
\* equal weight in one category, has been sorted twice.
C9_Witness ==
    /\ stage = "resorted"
    /\ out.sorted # X
    /\ \E i, j \in 1..Len(X) :
         /\ i < j /\ X[i] # X[j]
         /\ X[i].category = X[j].category
         /\ Weigh(X)[i] = Weigh(X)[j]

Shown == stage \in {"summary", "flipped"}

CategoriesOf(rows) == {rows[i].category : i \in 1..Len(rows)}

\* C5 as stated: on a page that rendered, every category total shown equals the sum of quantity x
\* weight over exactly the rows of that category, and the category totals
\* add up to the total weight of the summary.
C5_TotalsAddUp ==
    (Shown /\ ~out.failed) =>
        /\ \A k \in 1..Len(out.categories) :
             out.editor_totals[k] = CategoryTotal(X, out.categories[k])
        /\ \A k \in 1..Len(out.category_weights) :
             out.category_weights[k].total_weight =
                 CategoryTotal(X, out.category_weights[k].category)
        /\ SetSum(1..Len(out.category_weights),
                  [k \in 1..Len(out.category_weights) |->
                     out.category_weights[k].total_weight])
             = out.summary.total_weight

FlaggedTotal(rows, flag) == SetSum({i \in 1..Len(rows) : rows[i][flag]}, Weigh(rows))

BaseOf(rows) ==
    SetSum(1..Len(rows), Weigh(rows)) - FlaggedTotal(rows, "wearable")
        - FlaggedTotal(rows, "consumable")

SameButLuxury(xs, ys) ==
    /\ Len(xs) = Len(ys)
    /\ \A i \in 1..Len(xs) : [xs[i] EXCEPT !.luxury = FALSE] = [ys[i] EXCEPT !.luxury = FALSE]

\* C6: the base weight shown is total weight - wearable weight - consumable
\* weight, each the sum of quantity x weight over the rows flagged so, and
\* flipping luxury flags alone leaves it as it was.
C6_BaseWeight ==
    [][/\ Shown' => out'.summary.base_weight = BaseOf(X')
       /\ (Shown /\ Shown' /\ SameButLuxury(X, X')) =>
              out'.summary.base_weight = out.summary.base_weight]_vars

\* C6 witness: a luxury flag was flipped in a list that holds a luxury row
\* that is also wearable, a consumable row, and base weight left over.
C6_Witness ==
    /\ stage = "flipped"
    /\ \E i, j \in 1..Len(X) :
         /\ X[i].luxury /\ X[i].wearable /\ ~X[j].luxury /\ X[j].consumable
    /\ out.summary.luxury_weight > 0
    /\ out.summary.base_weight # out.summary.total_weight

-----------------------------------------------------------------------------
(* Properties of the app.                                                  *)

DeletableCategories == {"a", "b"}

\* The pending-delete flag of category c is cleared by this step.
Cleared(c) == c \in confirm_delete /\ c \notin confirm_delete'

Occurrences(rows, r) == Cardinality({i \in 1..Len(rows) : rows[i] = r})

RowSet(rows) == {rows[i] : i \in 1..Len(rows)}

\* The rows of the selected config as pandas loads them.
FileRowsLoaded(files) == read_csv(files[selected_config]).rows

\* A list is in sort-rule order, whatever the order of categories of equal
\* total: no lighter category before a heavier one, the rows of a category
\* together, inside a category no lighter row before a heavier one.
InSortOrder(rows) ==
    /\ OrderedBy(rows, rows, LAMBDA c, d : ByTotal(rows, c, d))
    /\ Contiguous(rows)

\* C1 as stated: without authentication, Save Changes, Add Category, a
\* confirmed category delete and a notes edit leave the CSV files and the
\* notes files as they were.
C1_UnauthenticatedNoOp ==
    [][(~authenticated
          /\ op' \in {"save_changes", "add_category", "confirm_yes", "edit_notes"})
         => (fs' = fs /\ notes_fs' = notes_fs)]_vars

\* C2: confirming the deletion of category c writes exactly the rows of
\* the loaded list whose category is not c, each unchanged and as often as
\* before, none of category c, and leaves the total weight of every other
\* category as it was.
C2_DeleteRemovesCategory ==
    [][\A c \in DeletableCategories :
         (op' = "confirm_yes" /\ Cleared(c)) =>
            \E before \in {df.rows} : \E after \in {FileRowsLoaded(fs')} :
              /\ \A i \in 1..Len(after) : after[i].category # c
              /\ \A r \in RowSet(before) \cup RowSet(after) :
                    r.category # c => Occurrences(after, r) = Occurrences(before, r)
              /\ Len(after) = Cardinality({i \in 1..Len(before) : before[i].category # c})
              /\ \A d \in CategoriesOf(before) \ {c} :
                    CategoryTotal(after, d) = CategoryTotal(before, d)]_vars

\* C2 witness: a category delete was confirmed and rows of another
\* category are still in the file.
C2_Witness ==
    /\ op = "confirm_yes"
    /\ Len(fs[selected_config].rows) >= 1
    /\ \E i \in 1..Len(df.rows) : df.rows[i].weight > 0

ValidGearList(file) ==
    \A i \in 1..Len(file.rows) : file.rows[i].category \in DeletableCategories

\* C4 as stated: loading a valid gear list and pressing Save Changes in an
\* authenticated session without an edit leaves a file with the same rows,
\* no field changed, in sort-rule order.
C4_SaveRoundTrip ==
    [][(authenticated /\ op' = "save_changes" /\ SaveChanges([kind |-> "none"])
          /\ ValidGearList(fs[selected_config]))
         => \E x \in {fs[selected_config].rows} :
              /\ OrderedBy(x, fs'[selected_config].rows, LAMBDA c, d : ByTotal(x, c, d))
              /\ Contiguous(fs'[selected_config].rows)]_vars

\* C7: the bin button alone and 'No' leave the files as they were; a flag
\* is set only by the bin button of its category; 'Yes' acts only on a
\* category whose flag is set and removes its rows; after 'Yes' or 'No' the
\* flag of that category is cleared and no other flag changes.
C7_TwoStepDelete ==
    [][/\ op' \in {"delete_click", "confirm_no"} => fs' = fs
       /\ (confirm_delete' \ confirm_delete # {}) => op' = "delete_click"
       /\ op' = "delete_click" =>
             \E c \in DeletableCategories : confirm_delete' = confirm_delete \cup {c}
       /\ op' \in {"confirm_yes", "confirm_no"} =>
             \E c \in confirm_delete : confirm_delete' = confirm_delete \ {c}
       /\ op' = "confirm_yes" =>
             \E c \in confirm_delete :
                /\ Cleared(c)
                /\ \E i \in 1..Len(fs[selected_config].rows) :
                      fs[selected_config].rows[i].category = c
                /\ \A i \in 1..Len(fs'[selected_config].rows) :
                      fs'[selected_config].rows[i].category # c]_vars

\* C7 witness: a delete was confirmed for one category while the flag of
\* another category is still pending.
C7_Witness == op = "confirm_yes" /\ confirm_delete # {}

HeaderOnly ==
    [columns |-> <<"name", "desc", "category", "weight", "#",
                   "wearable", "consumable", "luxury">>,
     rows |-> <<>>]

\* The file each non-blank 'New config' text of the model must create.
ExpectedFile ==
    (<<"t">> :> "t.csv") @@ (<<Blank, "g", Blank>> :> "g.csv")
        @@ (<<"t", ".", "c", "s", "v">> :> "t.csv")

\* C8: creating a config with a non-blank name writes the file named by
\* the trimmed name, '.csv' appended unless the name ends in it, holding the
\* header and no rows, whether or not the file existed, and touches no other
\* file; a blank name writes nothing.
C8_CreateConfig ==
    [][\A text \in ConfigInputs :
         on_create_new_config(text) =>
            IF text \in DOMAIN ExpectedFile
            THEN /\ DOMAIN fs' = DOMAIN fs \cup {ExpectedFile[text]}
                 /\ \A f \in DOMAIN fs' :
                       fs'[f] = IF f = ExpectedFile[text] THEN HeaderOnly ELSE fs[f]
            ELSE fs' = fs]_vars

\* C8 witness: a config was created over g.csv, a list that had rows and
\* notes, and g.csv now holds the header alone, next to t.csv.
C8_Witness ==
    /\ op = "create"
    /\ "g.csv" \in DOMAIN notes_fs
    /\ fs["g.csv"] = HeaderOnly
    /\ selected_config = "g.csv"
    /\ "t.csv" \in DOMAIN fs

Writes == {"save_changes", "add_category", "confirm_yes"}

\* C10 as stated: every write of Save Changes, Add Category and a
\* confirmed delete stores the rows in sort-rule order.
C10_EveryWriteSorted ==
    [][(op' \in Writes /\ fs' # fs) => InSortOrder(FileRowsLoaded(fs'))]_vars

=============================================================================
